---- MODULE Spec2Model ----
(***************************************************************************)
(* Prisma Enhanced Remediation: the four AWS runbooks                      *)
(*   AWS-EC2-001  EBS volume without a recent snapshot                     *)
(*   AWS-RDS-005  RDS instance publicly accessible                         *)
(*   AWS-ELB-013  classic ELB without access log                           *)
(*   AWS-ELB-015  application ELB (elbv2) without access log               *)
(* Every invocation of remediate(session, alert, lambda_context) is a      *)
(* process; every boto3 call of it is one step, so that two invocations    *)
(* interleave at the API calls.  A Python str is a sequence of tokens; the *)
(* tokens "/" and ":" are the separators the runbooks split on.            *)
(***************************************************************************)
EXTENDS Integers, Sequences, FiniteSets, TLC

\* ------------------------------------------------------------------ bounds
\* the longest list describe_snapshots returns
MaxSnaps == 2
\* today's date, as a day number
Today == 20

\* ------------------------------------------------------- program constants
snapshot_age == 15
EmitInterval == 60

\* the invocations of the dispatcher that may be under way together
Invocations == {"inv1", "inv2"}

\* -------------------------------------------------------------- Python str
Str(tok) == <<tok>>

RECURSIVE split(_, _)
\* s.split(sep): the pieces of s between the separators
split(s, sep) ==
  IF \E k \in 1..Len(s) : s[k] = sep
  THEN LET k == CHOOSE n \in 1..Len(s) : s[n] = sep /\ \A m \in 1..(n - 1) : s[m] # sep
       IN  <<SubSeq(s, 1, k - 1)>> \o split(SubSeq(s, k + 1, Len(s)), sep)
  ELSE <<s>>

\* list[n] with Python's 0-based index; IndexError when HasIndex is false
HasIndex(list, n) == n < Len(list)
Index0(list, n) == list[n + 1]

\* needle in haystack, for str
Contains(haystack, needle) ==
  \E k \in 0..(Len(haystack) - Len(needle)) :
     SubSeq(haystack, k + 1, k + Len(needle)) = needle

\* StartTime.date(): the calendar day of a datetime counted in hours
DateOf(datetime) == datetime \div 24

\* ----------------------------------------------------------- provider side
\* botocore ClientError: e.response['Error'] with Code and Message
ClientErrors ==
  { [Code |-> "AccessDenied",    Message |-> <<"Access", "Denied">>],
    [Code |-> "MalformedPolicy", Message |-> <<"Invalid", "principal", "in", "policy">>] }

OK == [Code |-> "OK", Message |-> <<>>]

\* ------------------------------------------------------------- the alerts
EC2_001 == "AWS-EC2-001"
RDS_005 == "AWS-RDS-005"
ELB_013 == "AWS-ELB-013"
ELB_015 == "AWS-ELB-015"
Runbooks == {EC2_001, RDS_005, ELB_013, ELB_015}

\* regions of the alerts; eu-north-1 is an AWS region the runbooks' table lacks
AlertRegions == {Str("us-west-2"), Str("eu-west-1"), Str("us-east-1"), Str("eu-north-1")}
Account == Str("111122223333")

LoadBalancerArn(region, path) ==
  <<"arn", ":", "aws", ":", "elasticloadbalancing", ":">> \o region \o <<":">>
    \o Account \o <<":", "loadbalancer">> \o path

ClassicPath == <<"/", "myelb">>
AppPath == <<"/", "app", "/", "myelb", "/", "abc123">>

\* alert = {resource_id, region}, as index_prisma.py hands it to remediate
Alerts(rb) ==
  CASE rb = EC2_001 -> { [resource_id |-> Str("vol-0abc"), region |-> Str("us-east-1")] }
    [] rb = RDS_005 -> { [resource_id |-> Str("db-ABCDEFGH"), region |-> Str("us-east-1")] }
    [] rb = ELB_013 -> { [resource_id |-> LoadBalancerArn(r, ClassicPath), region |-> r] :
                           r \in AlertRegions }
    [] rb = ELB_015 -> { [resource_id |-> LoadBalancerArn(r, p), region |-> r] :
                           r \in AlertRegions, p \in {ClassicPath, AppPath} }

VARIABLES
  pc,           \* where each invocation stands: the boto3 call it makes next
  runbook,      \* the runbook each invocation runs
  alert,        \* its alert
  snapshot,     \* AWS-EC2-001 remediate: describe_snapshots(...)['Snapshots']
  db_instance,  \* AWS-RDS-005 remediate: describe_db_instances(...)['DBInstances']
  elb_arn,      \* AWS-ELB-015 remediate: elb[0]['LoadBalancerArn']
  account_id,   \* AWS-ELB-013/015 remediate: the account the bucket is named after
  bucket_name,  \* new_s3_bucket: the bucket's name
  calls,        \* the boto3 calls each invocation has made, with their outcome
  stdout,       \* the lines each invocation has printed
  buckets,      \* S3: the buckets of the account
  objects,      \* S3: the objects, [Bucket, Key]
  policies,     \* S3: the bucket policies, [Bucket, Policy]
  elbAttrs,     \* ELB: the AccessLog modify_load_balancer_attributes has set, by name
  elbv2Attrs,   \* ELBv2: the attributes modify_load_balancer_attributes has set, by ARN
  ebsSnapshots, \* EC2: the snapshots create_snapshot has made
  rdsInstances  \* RDS: the flags modify_db_instance has set

locals == <<snapshot, db_instance, elb_arn, account_id, bucket_name>>
s3 == <<buckets, objects, policies>>
cloud == <<buckets, objects, policies, elbAttrs, elbv2Attrs, ebsSnapshots, rdsInstances>>
vars == <<pc, runbook, alert, snapshot, db_instance, elb_arn, account_id, bucket_name,
          calls, stdout, buckets, objects, policies, elbAttrs, elbv2Attrs, ebsSnapshots,
          rdsInstances>>

None == <<>>

Init ==
  /\ pc = [i \in Invocations |-> "idle"]
  /\ runbook = [i \in Invocations |-> "none"]
  /\ alert = [i \in Invocations |-> [resource_id |-> None, region |-> None]]
  /\ snapshot = [i \in Invocations |-> None]
  /\ db_instance = [i \in Invocations |-> None]
  /\ elb_arn = [i \in Invocations |-> None]
  /\ account_id = [i \in Invocations |-> None]
  /\ bucket_name = [i \in Invocations |-> None]
  /\ calls = [i \in Invocations |-> <<>>]
  /\ stdout = [i \in Invocations |-> <<>>]
  /\ buckets = {}
  /\ objects = {}
  /\ policies = {}
  /\ elbAttrs = {}
  /\ elbv2Attrs = {}
  /\ ebsSnapshots = {}
  /\ rdsInstances = {}

\* one boto3 call: the API, its keyword arguments, the ClientError raised (or OK)
\* and the part of the response the runbook reads
Call(api, args, error, response) ==
  [api |-> api, args |-> args, error |-> error, response |-> response]

Record(i, api, args, error, response) ==
  calls' = [calls EXCEPT ![i] = Append(@, Call(api, args, error, response))]

\* print(...)
print(i, lines) == stdout' = [stdout EXCEPT ![i] = @ \o lines]

Goto(i, label) == pc' = [pc EXCEPT ![i] = label]

\* an except branch that prints and raises the error again
PrintMessageAndRaise(i, e) ==
  /\ print(i, <<e.Message>>)
  /\ Goto(i, "raised")

\* except ClientError as e: print(e.response['Error']['Message']); return
PrintMessageAndReturn(i, e) ==
  /\ print(i, <<e.Message>>)
  /\ Goto(i, "done")

\* ---------------------------------------------------------------- dispatch
\* the first statements of remediate, up to its first boto3 call
Entry(rb, a) ==
  CASE rb = EC2_001 -> "describe_snapshots"
    [] rb = RDS_005 -> "describe_db_instances"
    [] rb = ELB_013 -> IF HasIndex(split(a.resource_id, "/"), 1)
                       THEN "describe_load_balancer_attributes" ELSE "raised"
    [] rb = ELB_015 -> IF HasIndex(split(a.resource_id, "/"), 2)
                       THEN "describe_load_balancers" ELSE "raised"

Invoke(i) ==
  /\ pc[i] = "idle"
  /\ \E rb \in Runbooks : \E a \in Alerts(rb) :
       /\ runbook' = [runbook EXCEPT ![i] = rb]
       /\ alert' = [alert EXCEPT ![i] = a]
       /\ Goto(i, Entry(rb, a))
  /\ UNCHANGED <<locals, calls, stdout, cloud>>

\* ------------------------------------------------------------ AWS-EC2-001
volume_id(i) == alert[i].resource_id

\* the datetimes a snapshot of the volume may carry
StartTimes ==
  { 24 * (Today - ah[1]) + ah[2] :
       ah \in { <<snapshot_age - 1, 0>>, <<snapshot_age, 0>>, <<snapshot_age, 23>>,
                <<snapshot_age + 1, 23>> } }

\* what describe_snapshots may answer: the volume's snapshots, in any order
SnapshotLists(vol) ==
  UNION { [1..n -> { [VolumeId |-> vol, StartTime |-> t] : t \in StartTimes }] : n \in 0..MaxSnaps }

\* a remediate that asks for no snapshot when the volume has none
snapshot_needed_only_old(snap) ==
  IF Len(snap) > 0
  THEN Today - DateOf(Index0(snap, 0).StartTime) >= snapshot_age
  ELSE FALSE

\* lines 68-75 of remediate
snapshot_needed(snap) ==
  IF Len(snap) > 0
  THEN LET snap_date == DateOf(Index0(snap, 0).StartTime)
           today == Today
           delta == today - snap_date
       IN  delta >= snapshot_age
  ELSE TRUE

EC2_describe_snapshots(i) ==
  /\ pc[i] = "describe_snapshots"
  /\ LET args == [Filters |-> <<[Name |-> "volume-id", Values |-> <<volume_id(i)>>]>>] IN
     \/ \E e \in ClientErrors :
          /\ Record(i, "describe_snapshots", args, e, None)
          /\ PrintMessageAndReturn(i, e)
          /\ UNCHANGED snapshot
     \/ \E list \in SnapshotLists(volume_id(i)) :
          /\ Record(i, "describe_snapshots", args, OK, list)
          /\ snapshot' = [snapshot EXCEPT ![i] = list]
          /\ Goto(i, IF snapshot_needed(list) THEN "create_snapshot" ELSE "done")
          /\ UNCHANGED stdout
  /\ UNCHANGED <<runbook, alert, db_instance, elb_arn, account_id, bucket_name, cloud>>

\* new_ebs_snapshot(ec2, volume_id)
EC2_create_snapshot(i) ==
  /\ pc[i] = "create_snapshot"
  /\ LET args == [VolumeId |-> volume_id(i), Description |-> <<"Autoremediate", "snapshot">>] IN
     \/ \E e \in ClientErrors :
          /\ Record(i, "create_snapshot", args, e, None)
          /\ PrintMessageAndReturn(i, e)
          /\ UNCHANGED ebsSnapshots
     \/ LET snapshot_id == Str("snap") \o Str(ToString(Cardinality(ebsSnapshots) + 1)) IN
          /\ Record(i, "create_snapshot", args, OK, [SnapshotId |-> snapshot_id])
          /\ ebsSnapshots' = ebsSnapshots \cup
               { [SnapshotId |-> snapshot_id, VolumeId |-> args.VolumeId,
                  Description |-> args.Description] }
          /\ print(i, << <<"New", "snapshot">> \o snapshot_id
                           \o <<"created", "for", "EBS", "Volume">> \o volume_id(i) >>)
          /\ Goto(i, "done")
  /\ UNCHANGED <<runbook, alert, locals, s3, elbAttrs, elbv2Attrs, rdsInstances>>

\* ------------------------------------------------------------ AWS-RDS-005
\* what describe_db_instances may answer: no instance, or the instance, whose
\* PubliclyAccessible is true, false or absent
DBInstanceLists ==
  { <<>>,
    << [DBInstanceIdentifier |-> Str("mydb"), PubliclyAccessible |-> TRUE] >>,
    << [DBInstanceIdentifier |-> Str("mydb"), PubliclyAccessible |-> FALSE] >>,
    << [DBInstanceIdentifier |-> Str("mydb")] >> }

\* a remediate that takes an absent flag for a set one
public_absent_true(db) ==
  IF HasIndex(db, 0) /\ "PubliclyAccessible" \in DOMAIN Index0(db, 0)
  THEN Index0(db, 0).PubliclyAccessible
  ELSE TRUE

\* try: db_instance[0]['PubliclyAccessible'] except (KeyError, IndexError): False
public(db) ==
  IF HasIndex(db, 0) /\ "PubliclyAccessible" \in DOMAIN Index0(db, 0)
  THEN Index0(db, 0).PubliclyAccessible
  ELSE FALSE

RDS_describe_db_instances(i) ==
  /\ pc[i] = "describe_db_instances"
  /\ LET args == [Filters |-> <<[Name |-> "dbi-resource-id", Values |-> <<alert[i].resource_id>>]>>] IN
     \/ \E e \in ClientErrors :
          /\ Record(i, "describe_db_instances", args, e, None)
          /\ PrintMessageAndReturn(i, e)
          /\ UNCHANGED db_instance
     \/ \E list \in DBInstanceLists :
          /\ Record(i, "describe_db_instances", args, OK, list)
          /\ db_instance' = [db_instance EXCEPT ![i] = list]
          /\ Goto(i, IF public(list) THEN "modify_db_instance" ELSE "done")
          /\ UNCHANGED stdout
  /\ UNCHANGED <<runbook, alert, snapshot, elb_arn, account_id, bucket_name, cloud>>

RDS_modify_db_instance(i) ==
  /\ pc[i] = "modify_db_instance"
  /\ LET instance_id == Index0(db_instance[i], 0).DBInstanceIdentifier
         args == [DBInstanceIdentifier |-> instance_id, PubliclyAccessible |-> FALSE] IN
     \/ \E e \in ClientErrors :
          /\ Record(i, "modify_db_instance", args, e, None)
          /\ PrintMessageAndReturn(i, e)
          /\ UNCHANGED rdsInstances
     \/ /\ Record(i, "modify_db_instance", args, OK, None)
        /\ rdsInstances' = { d \in rdsInstances : d.DBInstanceIdentifier # instance_id }
                             \cup { args }
        /\ print(i, << <<"Removed", "public", "attribute", "from", "RDS", "instance">>
                         \o instance_id >>)
        /\ Goto(i, "done")
  /\ UNCHANGED <<runbook, alert, locals, s3, elbAttrs, elbv2Attrs, ebsSnapshots>>

\* ------------------------------------------------ BucketTemplate.BucketPolicy
\* a JSON value: a str, a dict (its items in insertion order) or a list
JStr(v) == [t |-> "str", v |-> v]
JDict(items) == [t |-> "dict", v |-> items]
JList(items) == [t |-> "list", v |-> items]

Quote == "\""

RECURSIVE json_dumps(_)
RECURSIVE json_items(_, _)
\* json.dumps(x): the text of x
json_dumps(x) ==
  CASE x.t = "str"  -> <<Quote>> \o x.v \o <<Quote>>
    [] x.t = "dict" -> <<"{">> \o json_items(x, 1) \o <<"}">>
    [] x.t = "list" -> <<"[">> \o json_items(x, 1) \o <<"]">>
json_items(x, k) ==
  IF k > Len(x.v) THEN <<>>
  ELSE (IF k > 1 THEN <<",">> ELSE <<>>)
       \o (IF x.t = "dict"
           THEN <<Quote, x.v[k][1], Quote, ":">> \o json_dumps(x.v[k][2])
           ELSE json_dumps(x.v[k]))
       \o json_items(x, k + 1)

\* the if/elif chain of BucketPolicy: the ELB account of the region
elb_account_id(region) ==
  CASE region = Str("ap-northeast-1") -> Str("582318560864")
    [] region = Str("ap-northeast-2") -> Str("600734575887")
    [] region = Str("ap-northeast-3") -> Str("383597477331")
    [] region = Str("ap-south-1")     -> Str("718504428378")
    [] region = Str("ap-southeast-1") -> Str("114774131450")
    [] region = Str("ap-southeast-2") -> Str("783225319266")
    [] region = Str("ca-central-1")   -> Str("985666609251")
    [] region = Str("eu-central-1")   -> Str("054676820928")
    [] region = Str("eu-west-1")      -> Str("156460612806")
    [] region = Str("eu-west-2")      -> Str("652711504416")
    [] region = Str("eu-west-3")      -> Str("009996457667")
    [] region = Str("sa-east-1")      -> Str("507241528517")
    [] region = Str("us-east-1")      -> Str("127311923021")
    [] region = Str("us-east-2")      -> Str("033677994240")
    [] region = Str("us-west-1")      -> Str("027434742980")
    [] region = Str("us-west-2")      -> Str("797873946194")
    [] OTHER                          -> Str("123456789012")

\* f'arn:aws:iam::{elb_account_id}:root'
RootArn(account) == <<"arn", ":", "aws", ":", "iam", ":", ":">> \o account \o <<":", "root">>
\* f'arn:aws:s3:::{self}/*/AWSLogs/{account_id}/*'
LogsArn(self, account) ==
  <<"arn", ":", "aws", ":", "s3", ":", ":", ":">> \o self
    \o <<"/", "*", "/", "AWSLogs", "/">> \o account \o <<"/", "*">>
\* f'arn:aws:s3:::{self}'
BucketArn(self) == <<"arn", ":", "aws", ":", "s3", ":", ":", ":">> \o self

\* the dict BucketPolicy returns, for a bucket, an account and a log-delivery account
PolicyDocument(bucket, account, elb_account) ==
  JDict(<<
    <<"Version", JStr(Str("2012-10-17"))>>,
    <<"Statement", JList(<<
       JDict(<< <<"Sid", JStr(Str("ELBLoggingPolicy"))>>,
                <<"Effect", JStr(Str("Allow"))>>,
                <<"Principal", JDict(<< <<"AWS", JStr(RootArn(elb_account))>> >>)>>,
                <<"Action", JStr(<<"s3", ":", "PutObject">>)>>,
                <<"Resource", JStr(LogsArn(bucket, account))>> >>),
       JDict(<< <<"Effect", JStr(Str("Allow"))>>,
                <<"Principal", JDict(<< <<"Service", JStr(Str("delivery.logs.amazonaws.com"))>> >>)>>,
                <<"Action", JStr(<<"s3", ":", "PutObject">>)>>,
                <<"Resource", JStr(LogsArn(bucket, account))>>,
                <<"Condition", JDict(<< <<"StringEquals",
                     JDict(<< <<"s3:x-amz-acl", JStr(Str("bucket-owner-full-control"))>> >>)>> >>)>> >>),
       JDict(<< <<"Effect", JStr(Str("Allow"))>>,
                <<"Principal", JDict(<< <<"Service", JStr(Str("delivery.logs.amazonaws.com"))>> >>)>>,
                <<"Action", JStr(<<"s3", ":", "GetBucketAcl">>)>>,
                <<"Resource", JStr(BucketArn(bucket))>> >>) >>)>> >>)

\* a BucketPolicy whose arguments are one place off: the account id for the bucket
BucketPolicy_shifted(self, account, region) ==
  PolicyDocument(account, region, elb_account_id(region))

\* BucketTemplate.BucketPolicy(self, account_id, region), called on the class:
\* the first argument, the bucket's name, is bound to self
BucketPolicy(self, account, region) ==
  PolicyDocument(self, account, elb_account_id(region))

\* ------------------------------------------------ AWS-ELB-013, AWS-ELB-015
arn(i) == alert[i].resource_id
region(i) == alert[i].region

\* arn.split('/')[1] in AWS-ELB-013, arn.split('/')[2] in AWS-ELB-015
elb_name(i) ==
  IF runbook[i] = ELB_013 THEN Index0(split(arn(i), "/"), 1)
                          ELSE Index0(split(arn(i), "/"), 2)

Fail == Str("fail")

\* the lines the except branches print
AccessDeniedHint(r) ==
  <<"Access", "Denied:", "Check", "the", "AWS", "ELB", "Account", "Id", "for", "the">>
    \o r \o <<"region.">>
InvalidPrincipalHint(r) ==
  <<"Invalid", "principal:", "Check", "the", "AWS", "ELB", "Account", "Id", "for", "the">>
    \o r \o <<"region.">>
UnableToFind(name) ==
  <<"Error:", "Unable", "to", "find", "the", "ARN", "for", "Application", "ELB">> \o name

\* a remediate that does not look at 'fail' and enables the access log
ReturnFail_and_enable(i) ==
  /\ bucket_name' = [bucket_name EXCEPT ![i] = Fail]
  /\ Goto(i, "modify_load_balancer_attributes")

\* a remediate that does not look at 'fail' and goes on to make the bucket
ReturnFail_and_create(i) ==
  /\ bucket_name' = [bucket_name EXCEPT ![i] = Fail]
  /\ Goto(i, IF pc[i] = "get_caller_identity" THEN "create_bucket" ELSE "done")

\* return 'fail' from new_s3_bucket or get_account_id: remediate enables nothing
ReturnFail(i) ==
  /\ bucket_name' = [bucket_name EXCEPT ![i] = Fail]
  /\ Goto(i, "done")

\* AWS-ELB-013 remediate, lines 74-82
ELB13_describe_load_balancer_attributes(i) ==
  /\ pc[i] = "describe_load_balancer_attributes"
  /\ LET args == [LoadBalancerName |-> elb_name(i)] IN
     \/ \E e \in ClientErrors :
          /\ Record(i, "describe_load_balancer_attributes", args, e, None)
          /\ PrintMessageAndReturn(i, e)
     \/ \E enabled \in BOOLEAN :
          LET attribs == [AccessLog |-> [Enabled |-> enabled]]
              logging == attribs.AccessLog
          IN  /\ Record(i, "describe_load_balancer_attributes", args, OK, attribs)
              /\ Goto(i, IF logging.Enabled # TRUE THEN "get_caller_identity" ELSE "done")
              /\ UNCHANGED stdout
  /\ UNCHANGED <<runbook, alert, locals, cloud>>

\* the new_s3_bucket's first statement: the name of the bucket
BucketName(rb, account, r) ==
  IF rb = ELB_013 THEN <<"elblogs-">> \o account \o <<"-">> \o r
                  ELSE <<"elbv2logs-">> \o account \o <<"-">> \o r

\* get_account_id(sts), and line 85 of AWS-ELB-013 remediate
ELB13_get_caller_identity(i) ==
  /\ pc[i] = "get_caller_identity"
  /\ \/ \E e \in ClientErrors :
          /\ Record(i, "get_caller_identity", None, e, None)
          /\ print(i, <<e.Message>>)
          /\ account_id' = [account_id EXCEPT ![i] = Fail]
          /\ ReturnFail(i)
     \/ /\ Record(i, "get_caller_identity", None, OK, [Account |-> Account])
        /\ account_id' = [account_id EXCEPT ![i] = Account]
        /\ bucket_name' = [bucket_name EXCEPT ![i] = BucketName(runbook[i], Account, region(i))]
        /\ Goto(i, "create_bucket")
        /\ UNCHANGED stdout
  /\ UNCHANGED <<runbook, alert, snapshot, db_instance, elb_arn, cloud>>

\* what describe_load_balancers may answer for a name
LoadBalancerLists(name, r) ==
  { <<>>,
    << [LoadBalancerName |-> name] >>,
    << [LoadBalancerName |-> name,
        LoadBalancerArn |-> LoadBalancerArn(r, <<"/", "app", "/">> \o name \o <<"/", "abc123">>)] >> }

\* AWS-ELB-015 remediate, lines 66-79
ELB15_describe_load_balancers(i) ==
  /\ pc[i] = "describe_load_balancers"
  /\ LET args == [Names |-> <<elb_name(i)>>] IN
     \/ \E e \in ClientErrors :
          /\ Record(i, "describe_load_balancers", args, e, None)
          /\ PrintMessageAndReturn(i, e)
          /\ UNCHANGED <<elb_arn, account_id>>
     \/ \E elb \in LoadBalancerLists(elb_name(i), region(i)) :
          /\ Record(i, "describe_load_balancers", args, OK, elb)
          /\ IF HasIndex(elb, 0) /\ "LoadBalancerArn" \in DOMAIN Index0(elb, 0)
             THEN /\ elb_arn' = [elb_arn EXCEPT ![i] = Index0(elb, 0).LoadBalancerArn]
                  /\ account_id' = [account_id EXCEPT ![i] =
                                      Index0(split(Index0(elb, 0).LoadBalancerArn, ":"), 4)]
                  /\ Goto(i, "describe_load_balancer_attributes_v2")
                  /\ UNCHANGED stdout
             ELSE /\ print(i, <<UnableToFind(elb_name(i))>>)
                  /\ Goto(i, "done")
                  /\ UNCHANGED <<elb_arn, account_id>>
  /\ UNCHANGED <<runbook, alert, snapshot, db_instance, bucket_name, cloud>>

\* the attribute lists describe_load_balancer_attributes of elbv2 may answer:
\* every key at most once, in any order
Attrib(k, v) == [Key |-> Str(k), Value |-> Str(v)]
AttributeLists ==
  LET other == Attrib("deletion_protection.enabled", "false")
      on    == Attrib("access_logs.s3.enabled", "true")
      off   == Attrib("access_logs.s3.enabled", "false")
  IN  { <<other>>, <<on, other>>, <<other, on>>, <<other, off>> }

RECURSIVE LoggingFrom(_, _, _)
\* the for loop of lines 89-91, from the k-th attribute on
LoggingFrom(attribs, k, logging) ==
  IF k > Len(attribs) THEN logging
  ELSE LoggingFrom(attribs, k + 1,
                   IF attribs[k].Key = Str("access_logs.s3.enabled")
                   THEN attribs[k].Value ELSE logging)

\* a loop that stops after the first attribute
Logging_first_only(attribs) ==
  IF Len(attribs) > 0 /\ attribs[1].Key = Str("access_logs.s3.enabled")
  THEN attribs[1].Value ELSE Str("none")

\* logging = 'none', then the loop
Logging(attribs) == LoggingFrom(attribs, 1, Str("none"))

\* AWS-ELB-015 remediate, lines 81-95
ELB15_describe_load_balancer_attributes(i) ==
  /\ pc[i] = "describe_load_balancer_attributes_v2"
  /\ LET args == [LoadBalancerArn |-> elb_arn[i]] IN
     \/ \E e \in ClientErrors :
          /\ Record(i, "describe_load_balancer_attributes", args, e, None)
          /\ PrintMessageAndReturn(i, e)
          /\ UNCHANGED bucket_name
     \/ \E attribs \in AttributeLists :
          /\ Record(i, "describe_load_balancer_attributes", args, OK, attribs)
          /\ IF Logging(attribs) # Str("true")
             THEN /\ bucket_name' = [bucket_name EXCEPT ![i] =
                                       BucketName(runbook[i], account_id[i], region(i))]
                  /\ Goto(i, "create_bucket")
             ELSE /\ Goto(i, "done")
                  /\ UNCHANGED bucket_name
          /\ UNCHANGED stdout
  /\ UNCHANGED <<runbook, alert, snapshot, db_instance, elb_arn, account_id, cloud>>

\* S3's answers to create_bucket that new_s3_bucket takes for success
AlreadyExists == [Code |-> "BucketAlreadyExists",
                  Message |-> <<"The", "requested", "bucket", "name", "is", "not", "available">>]
AlreadyOwned == [Code |-> "BucketAlreadyOwnedByYou",
                 Message |-> <<"Your", "previous", "request", "succeeded", "and", "you",
                               "already", "own", "it">>]

Owner(b) == IF \E x \in buckets : x.Bucket = b
            THEN (CHOOSE x \in buckets : x.Bucket = b).Owner ELSE "nobody"

\* what S3 may answer to create_bucket(Bucket=b) in region r
CreateBucketAnswers(b, r) ==
  ClientErrors \cup
    CASE Owner(b) = "nobody" -> {OK, AlreadyExists}
      [] Owner(b) = "other"  -> {AlreadyExists}
      [] Owner(b) = "self"   -> IF r = Str("us-east-1") THEN {OK, AlreadyOwned} ELSE {AlreadyOwned}

\* an except branch that forgets the bucket another account owns
CreateBucketTolerated_owned_only(e) ==
  e.Code = "BucketAlreadyOwnedByYou"

\* new_s3_bucket, lines 145-167 of AWS-ELB-015 (129-151 of AWS-ELB-013):
\* what the except branch does with the error of create_bucket
CreateBucketTolerated(e) ==
  e.Code = "BucketAlreadyExists" \/ e.Code = "BucketAlreadyOwnedByYou"

S3_create_bucket(i) ==
  /\ pc[i] = "create_bucket"
  /\ LET b == bucket_name[i]
         args == IF region(i) = Str("us-east-1")
                 THEN [ACL |-> "private", Bucket |-> b]
                 ELSE [ACL |-> "private", Bucket |-> b,
                       CreateBucketConfiguration |-> [LocationConstraint |-> region(i)]]
     IN \E a \in CreateBucketAnswers(b, region(i)) :
          /\ Record(i, "create_bucket", args, a, None)
          /\ buckets' = IF a = OK THEN {x \in buckets : x.Bucket # b}
                                         \cup {[Bucket |-> b, Owner |-> "self"]}
                        ELSE IF a = AlreadyExists /\ Owner(b) = "nobody"
                        THEN buckets \cup {[Bucket |-> b, Owner |-> "other"]}
                        ELSE buckets
          /\ IF a = OK
             THEN /\ print(i, << <<"New", "S3", "bucket", "created:">> \o b >>)
                  /\ Goto(i, "put_object")
                  /\ UNCHANGED bucket_name
             ELSE IF CreateBucketTolerated(a)
             THEN /\ print(i, << (IF a.Code = "BucketAlreadyExists"
                                  THEN <<"Using", "existing", "S3", "bucket:">>
                                  ELSE <<"Using", "already", "owned", "and", "existing", "S3",
                                         "bucket:">>) \o b >>)
                  /\ Goto(i, "put_object")
                  /\ UNCHANGED bucket_name
             ELSE /\ print(i, <<a.Message>>)
                  /\ ReturnFail(i)
  /\ UNCHANGED <<runbook, alert, snapshot, db_instance, elb_arn, account_id,
                 objects, policies, elbAttrs, elbv2Attrs, ebsSnapshots, rdsInstances>>

\* new_s3_bucket, lines 169-174: the folder of the load balancer
S3_put_object(i) ==
  /\ pc[i] = "put_object"
  /\ LET args == [Bucket |-> bucket_name[i], Key |-> elb_name(i) \o <<"/">>] IN
     \/ \E e \in ClientErrors :
          /\ Record(i, "put_object", args, e, None)
          /\ print(i, <<e.Message>>)
          /\ ReturnFail(i)
          /\ UNCHANGED objects
     \/ /\ Record(i, "put_object", args, OK, None)
        /\ objects' = objects \cup {args}
        /\ Goto(i, "put_bucket_policy")
        /\ UNCHANGED <<stdout, bucket_name>>
  /\ UNCHANGED <<runbook, alert, snapshot, db_instance, elb_arn, account_id,
                 buckets, policies, elbAttrs, elbv2Attrs, ebsSnapshots, rdsInstances>>

\* new_s3_bucket, lines 176-191: the logging policy
S3_put_bucket_policy(i) ==
  /\ pc[i] = "put_bucket_policy"
  /\ LET args == [Bucket |-> bucket_name[i],
                  Policy |-> json_dumps(BucketPolicy(bucket_name[i], account_id[i], region(i)))] IN
     \/ \E e \in ClientErrors :
          /\ Record(i, "put_bucket_policy", args, e, None)
          /\ print(i, << IF Contains(e.Message, <<"Invalid", "principal">>)
                         THEN InvalidPrincipalHint(region(i)) ELSE e.Message >>)
          /\ ReturnFail(i)
          /\ UNCHANGED policies
     \/ /\ Record(i, "put_bucket_policy", args, OK, None)
        /\ policies' = {x \in policies : x.Bucket # args.Bucket} \cup {args}
        /\ Goto(i, "modify_load_balancer_attributes")
        /\ UNCHANGED <<stdout, bucket_name>>
  /\ UNCHANGED <<runbook, alert, snapshot, db_instance, elb_arn, account_id,
                 buckets, objects, elbAttrs, elbv2Attrs, ebsSnapshots, rdsInstances>>

\* except ClientError of enable_access_log
EnableFailed(i, e) ==
  /\ print(i, << IF Contains(e.Message, <<"Access", "Denied">>)
                 THEN AccessDeniedHint(region(i)) ELSE e.Message >>)
  /\ Goto(i, "done")

\* AWS-ELB-013 enable_access_log
ELB13_modify_load_balancer_attributes(i) ==
  /\ pc[i] = "modify_load_balancer_attributes"
  /\ runbook[i] = ELB_013
  /\ LET args == [LoadBalancerName |-> elb_name(i),
                  LoadBalancerAttributes |->
                    [AccessLog |-> [Enabled |-> TRUE, S3BucketName |-> bucket_name[i],
                                    EmitInterval |-> EmitInterval,
                                    S3BucketPrefix |-> elb_name(i)]]] IN
     \/ \E e \in ClientErrors :
          /\ Record(i, "modify_load_balancer_attributes", args, e, None)
          /\ EnableFailed(i, e)
          /\ UNCHANGED elbAttrs
     \/ /\ Record(i, "modify_load_balancer_attributes", args, OK, None)
        /\ elbAttrs' = {x \in elbAttrs : x.LoadBalancerName # args.LoadBalancerName}
                         \cup {args}
        /\ print(i, << <<"Enabled", "Access", "Log", "for", "ELB">> \o elb_name(i) >>)
        /\ Goto(i, "done")
  /\ UNCHANGED <<runbook, alert, locals, s3, elbv2Attrs, ebsSnapshots, rdsInstances>>

\* AWS-ELB-015 enable_access_log
ELB15_modify_load_balancer_attributes(i) ==
  /\ pc[i] = "modify_load_balancer_attributes"
  /\ runbook[i] = ELB_015
  /\ LET args == [LoadBalancerArn |-> elb_arn[i],
                  Attributes |-> << [Key |-> Str("access_logs.s3.enabled"), Value |-> Str("true")],
                                    [Key |-> Str("access_logs.s3.bucket"), Value |-> bucket_name[i]],
                                    [Key |-> Str("access_logs.s3.prefix"), Value |-> elb_name(i)] >>] IN
     \/ \E e \in ClientErrors :
          /\ Record(i, "modify_load_balancer_attributes", args, e, None)
          /\ EnableFailed(i, e)
          /\ UNCHANGED elbv2Attrs
     \/ /\ Record(i, "modify_load_balancer_attributes", args, OK, None)
        /\ elbv2Attrs' = {x \in elbv2Attrs : x.LoadBalancerArn # args.LoadBalancerArn}
                           \cup {args}
        /\ print(i, << <<"Enabled", "Access", "Log", "for", "Application", "ELB">>
                         \o elb_name(i) >>)
        /\ Goto(i, "done")
  /\ UNCHANGED <<runbook, alert, locals, s3, elbAttrs, ebsSnapshots, rdsInstances>>

Next ==
  \E i \in Invocations :
    \/ Invoke(i)
    \/ EC2_describe_snapshots(i)
    \/ EC2_create_snapshot(i)
    \/ RDS_describe_db_instances(i)
    \/ RDS_modify_db_instance(i)
    \/ ELB13_describe_load_balancer_attributes(i)
    \/ ELB13_get_caller_identity(i)
    \/ ELB15_describe_load_balancers(i)
    \/ ELB15_describe_load_balancer_attributes(i)
    \/ S3_create_bucket(i)
    \/ S3_put_object(i)
    \/ S3_put_bucket_policy(i)
    \/ ELB13_modify_load_balancer_attributes(i)
    \/ ELB15_modify_load_balancer_attributes(i)

Spec == Init /\ [][Next]_vars

\* ===================================================================
\* The claims
\* ===================================================================
\* what an invocation has called
CallIndexes(i, apis) == { k \in 1..Len(calls[i]) : calls[i][k].api \in apis }
Succeeded(c) == c.error = OK
Returned(i) == pc[i] = "done"

MutatingApis == {"create_snapshot", "modify_db_instance", "create_bucket", "put_object",
                 "put_bucket_policy", "modify_load_balancer_attributes"}

\* ---- C1
\* the instances describe_db_instances answered, when it answered
DescribedInstances(i) == calls[i][1].response
FlagIsTrue(list) ==
  /\ Len(list) > 0
  /\ "PubliclyAccessible" \in DOMAIN list[1]
  /\ list[1].PubliclyAccessible = TRUE

\* C1: AWS-RDS-005 remediate. When the instance describe_db_instances returns has
\* PubliclyAccessible = true, the invocation makes exactly one modify_db_instance call,
\* for that instance's identifier and with PubliclyAccessible = False; when the flag is
\* false, the field is missing or no instance is returned, it makes no modify call.
C1_PublicFlagCleared ==
  \A i \in Invocations :
    (runbook[i] = RDS_005 /\ Len(calls[i]) > 0 /\ Succeeded(calls[i][1])) =>
      LET modifies == CallIndexes(i, {"modify_db_instance"}) IN
      IF FlagIsTrue(DescribedInstances(i))
      THEN /\ Cardinality(modifies) <= 1
           /\ Returned(i) => Cardinality(modifies) = 1
           /\ \A k \in modifies :
                /\ calls[i][k].args.DBInstanceIdentifier =
                     DescribedInstances(i)[1].DBInstanceIdentifier
                /\ calls[i][k].args.PubliclyAccessible = FALSE
      ELSE modifies = {}

C1_Witness ==
  \E i \in Invocations :
    /\ runbook[i] = RDS_005 /\ Returned(i) /\ Len(calls[i]) = 2
    /\ FlagIsTrue(DescribedInstances(i))
    /\ calls[i][2].api = "modify_db_instance" /\ Succeeded(calls[i][2])
    /\ [DBInstanceIdentifier |-> Str("mydb"), PubliclyAccessible |-> FALSE] \in rdsInstances

\* ---- C2
\* C2: AWS-EC2-001 remediate. When describe_snapshots succeeds and returns no snapshot
\* of the alert's volume, the invocation makes exactly one create_snapshot call, with
\* the alert's volume id and the description 'Autoremediate snapshot'.
C2_NoSnapshotCreatesOne ==
  \A i \in Invocations :
    (runbook[i] = EC2_001 /\ Len(calls[i]) > 0 /\ Succeeded(calls[i][1])
       /\ calls[i][1].response = <<>>) =>
      LET creates == CallIndexes(i, {"create_snapshot"}) IN
      /\ Cardinality(creates) <= 1
      /\ Returned(i) => Cardinality(creates) = 1
      /\ \A k \in creates :
           /\ calls[i][k].args.VolumeId = alert[i].resource_id
           /\ calls[i][k].args.Description = <<"Autoremediate", "snapshot">>

C2_Witness ==
  \E i \in Invocations :
    /\ runbook[i] = EC2_001 /\ Returned(i) /\ Len(calls[i]) = 2
    /\ calls[i][1].response = <<>> /\ Succeeded(calls[i][1])
    /\ calls[i][2].api = "create_snapshot" /\ Succeeded(calls[i][2])
    /\ \E x \in ebsSnapshots : x.VolumeId = Str("vol-0abc")

\* ---- C3
\* the calendar day of the most recently created snapshot of a list
LatestDate(list) ==
  CHOOSE d \in { list[k].StartTime \div 24 : k \in 1..Len(list) } :
    \A k \in 1..Len(list) : list[k].StartTime \div 24 <= d

\* C3: AWS-EC2-001 remediate. When the volume has snapshots, create_snapshot is called
\* if and only if the most recently created of all the snapshots returned, whatever
\* their order, is at least 15 calendar days older than today.
C3_LatestSnapshotDecides ==
  \A i \in Invocations :
    (runbook[i] = EC2_001 /\ Returned(i) /\ Succeeded(calls[i][1])
       /\ Len(calls[i][1].response) > 0) =>
      (CallIndexes(i, {"create_snapshot"}) # {}
         <=> Today - LatestDate(calls[i][1].response) >= 15)
\* ---- C4
IsELB(i) == runbook[i] \in {ELB_013, ELB_015}

\* describe_load_balancer_attributes answered that the access log is enabled
AlreadyEnabled(i) ==
  \E k \in CallIndexes(i, {"describe_load_balancer_attributes"}) :
    /\ Succeeded(calls[i][k])
    /\ IF runbook[i] = ELB_013
       THEN calls[i][k].response.AccessLog.Enabled = TRUE
       ELSE \E n \in 1..Len(calls[i][k].response) :
              /\ calls[i][k].response[n].Key = Str("access_logs.s3.enabled")
              /\ calls[i][k].response[n].Value = Str("true")

\* C4: AWS-ELB-013 and AWS-ELB-015 remediate. When the attributes fetched say the access
\* log is enabled already, the invocation makes no get_caller_identity, create_bucket,
\* put_object, put_bucket_policy or modify_load_balancer_attributes call, and its steps
\* leave the buckets, objects, policies and load balancer attributes as they are.
C4_EnabledIsNoOp ==
  [][ \A i \in Invocations :
        (IsELB(i) /\ AlreadyEnabled(i))' =>
          /\ (CallIndexes(i, MutatingApis \cup {"get_caller_identity"}) = {})'
          /\ pc'[i] = "done"
          /\ calls'[i] # calls[i] => UNCHANGED cloud ]_vars

C4_Witness ==
  /\ \E i \in Invocations : runbook[i] = ELB_013 /\ AlreadyEnabled(i) /\ Returned(i)
  /\ \E i \in Invocations : runbook[i] = ELB_015 /\ AlreadyEnabled(i) /\ Returned(i)
                               /\ calls[i][2].response[2].Value = Str("true")

\* ---- C5
RECURSIVE json_strings(_)
\* the strings of a JSON text, in the order they are written
json_strings(text) ==
  IF \E k \in 1..Len(text) : text[k] = Quote
  THEN LET a == CHOOSE n \in 1..Len(text) :
                  text[n] = Quote /\ \A m \in 1..(n - 1) : text[m] # Quote
           rest == SubSeq(text, a + 1, Len(text))
           b == CHOOSE n \in 1..Len(rest) :
                  rest[n] = Quote /\ \A m \in 1..(n - 1) : rest[m] # Quote
       IN  <<SubSeq(rest, 1, b - 1)>> \o json_strings(SubSeq(rest, b + 1, Len(rest)))
  ELSE <<>>

\* the values written after a key, in order
ValuesOf(text, key) ==
  LET strs == json_strings(text)
      at == { k \in 1..(Len(strs) - 1) : strs[k] = Str(key) }
      RECURSIVE pick(_)
      pick(k) == IF k >= Len(strs) THEN <<>>
                 ELSE (IF k \in at THEN <<strs[k + 1]>> ELSE <<>>) \o pick(k + 1)
  IN  pick(1)

\* the account of the principal arn:aws:iam::<account>:root of a policy text
TrustedAccounts(text) ==
  { split(ValuesOf(text, "AWS")[k], ":")[5] : k \in 1..Len(ValuesOf(text, "AWS")) }

\* the regions of the table of the AWS documentation the runbooks refer to that the
\* claim names, and the regions of the alerts the table has no row for
DocumentedAccount(r) ==
  CASE r = Str("us-west-2") -> Str("797873946194")
    [] r = Str("eu-west-1") -> Str("156460612806")
    [] r = Str("us-east-1") -> Str("127311923021")
Unmapped == {Str("eu-north-1")}
DefaultAccount == Str("123456789012")

\* C5: BucketTemplate.BucketPolicy. The log-delivery principal of the policy a
\* put_bucket_policy call carries is the account the table gives for the alert's region
\* (us-west-2: 797873946194, eu-west-1: 156460612806), and for a region the table does
\* not have no default account is made the trusted principal.
C5_PrincipalFromTable ==
  \A i \in Invocations : \A k \in CallIndexes(i, {"put_bucket_policy"}) :
    LET trusted == TrustedAccounts(calls[i][k].args.Policy) IN
    IF alert[i].region \in Unmapped
    THEN DefaultAccount \notin trusted
    ELSE trusted = {DocumentedAccount(alert[i].region)}

\* ---- C6
Tolerated(c) ==
  c.api = "create_bucket" /\ c.error.Code \in {"BucketAlreadyExists", "BucketAlreadyOwnedByYou"}

\* C6: new_s3_bucket. A create_bucket answer of BucketAlreadyExists or
\* BucketAlreadyOwnedByYou never ends the invocation: it stands before put_object with
\* the bucket's name, as after a bucket it created, prints no error, and its next call
\* is the put_object of the folder in that bucket.
C6_AlreadyExistsGoesOn ==
  \A i \in Invocations : \A k \in CallIndexes(i, {"create_bucket"}) :
    Tolerated(calls[i][k]) =>
      /\ pc[i] # "raised"
      /\ bucket_name[i] # Fail \/ Len(calls[i]) > k
      /\ Len(calls[i]) = k =>
           /\ pc[i] = "put_object"
           /\ bucket_name[i] = calls[i][k].args.Bucket
      /\ Len(calls[i]) > k =>
           /\ calls[i][k + 1].api = "put_object"
           /\ calls[i][k + 1].args.Bucket = calls[i][k].args.Bucket
           /\ calls[i][k + 1].args.Key = elb_name(i) \o <<"/">>

EnabledLogging(i) ==
  /\ Returned(i)
  /\ calls[i][Len(calls[i])].api = "modify_load_balancer_attributes"
  /\ Succeeded(calls[i][Len(calls[i])])

\* two invocations for one account and region: one makes the bucket, the other is told
\* it is owned already, and both enable the access log; and an invocation told that the
\* bucket exists enables it too
C6_Witness ==
  /\ \E i, j \in Invocations :
       /\ i # j /\ runbook[i] = runbook[j] /\ IsELB(i) /\ alert[i].region = alert[j].region
       /\ \E k \in CallIndexes(i, {"create_bucket"}) : Succeeded(calls[i][k])
       /\ \E k \in CallIndexes(j, {"create_bucket"}) :
            calls[j][k].error.Code = "BucketAlreadyOwnedByYou"
       /\ EnabledLogging(i) /\ EnabledLogging(j)

C6_WitnessExists ==
  \E i \in Invocations :
    /\ IsELB(i) /\ EnabledLogging(i)
    /\ \E k \in CallIndexes(i, {"create_bucket"}) :
         calls[i][k].error.Code = "BucketAlreadyExists"

\* ---- C7
\* C7: AWS-ELB-013 and AWS-ELB-015. modify_load_balancer_attributes is called only right
\* after create_bucket (answered OK or already-exists), put_object and put_bucket_policy
\* of the same invocation, in this order, the last two answered OK; a step that fails
\* with another error is the invocation's last call and ends it; and the bucket and the
\* folder object an invocation made stay where they are.
C7_EnableOnlyAfterBucketSetup ==
  \A i \in Invocations :
    IsELB(i) =>
      /\ \A k \in CallIndexes(i, {"modify_load_balancer_attributes"}) :
           /\ k > 3
           /\ calls[i][k - 3].api = "create_bucket"
           /\ Succeeded(calls[i][k - 3]) \/ Tolerated(calls[i][k - 3])
           /\ calls[i][k - 2].api = "put_object" /\ Succeeded(calls[i][k - 2])
           /\ calls[i][k - 1].api = "put_bucket_policy" /\ Succeeded(calls[i][k - 1])
      /\ \A k \in CallIndexes(i, {"create_bucket", "put_object", "put_bucket_policy"}) :
           /\ (~Succeeded(calls[i][k]) /\ ~Tolerated(calls[i][k])) =>
                (Len(calls[i]) = k /\ Returned(i))
           /\ (calls[i][k].api = "create_bucket" /\ Succeeded(calls[i][k])) =>
                [Bucket |-> calls[i][k].args.Bucket, Owner |-> "self"] \in buckets
           /\ (calls[i][k].api = "put_object" /\ Succeeded(calls[i][k])) =>
                calls[i][k].args \in objects

\* the policy could not be put: the bucket and the folder stay, the log stays off
C7_Witness ==
  \E i \in Invocations :
    /\ IsELB(i) /\ Returned(i) /\ Len(calls[i]) > 2
    /\ calls[i][Len(calls[i])].api = "put_bucket_policy"
    /\ ~Succeeded(calls[i][Len(calls[i])])
    /\ Succeeded(calls[i][Len(calls[i]) - 2])
    /\ [Bucket |-> calls[i][Len(calls[i])].args.Bucket, Owner |-> "self"] \in buckets
    /\ calls[i][Len(calls[i]) - 1].args \in objects
    /\ elbAttrs = {} /\ elbv2Attrs = {}

\* ---- C8
ReadApis == {"describe_snapshots", "describe_load_balancer_attributes",
             "describe_load_balancers", "get_caller_identity", "describe_db_instances"}

\* a read call that failed, or a lookup by name that found no load balancer (none in
\* the list, or one without its ARN)
ReadFailed(c) ==
  /\ c.api \in ReadApis
  /\ \/ ~Succeeded(c)
     \/ /\ c.api = "describe_load_balancers"
        /\ \/ c.response = <<>>
           \/ "LoadBalancerArn" \notin DOMAIN c.response[1]

\* C8: all four runbooks. A ClientError of describe_snapshots,
\* describe_load_balancer_attributes, describe_load_balancers, get_caller_identity or
\* describe_db_instances, and a describe_load_balancers that finds no load balancer, is
\* the last call of the invocation: no mutating call is made by it.
C8_ReadFailureMutatesNothing ==
  \A i \in Invocations : \A k \in 1..Len(calls[i]) :
    ReadFailed(calls[i][k]) =>
      /\ CallIndexes(i, MutatingApis) = {}
      /\ Len(calls[i]) = k
      /\ pc[i] \in {"done", "raised"}

C8_Witness ==
  /\ \E i \in Invocations :
       runbook[i] = ELB_013 /\ Returned(i) /\ Len(calls[i]) = 2
         /\ calls[i][2].api = "get_caller_identity" /\ ReadFailed(calls[i][2])
  /\ \E i \in Invocations :
       runbook[i] = ELB_015 /\ Returned(i) /\ Len(calls[i]) = 1
         /\ calls[i][1].response = <<>> /\ Succeeded(calls[i][1])

\* ---- C9
\* a line the runbooks print for an error: the provider's message, one of the two
\* hints, or the line of the load balancer that was not found
IsErrorLine(i, line) ==
  \/ \E e \in ClientErrors : line = e.Message
  \/ line = AccessDeniedHint(alert[i].region)
  \/ line = InvalidPrincipalHint(alert[i].region)
  \/ Len(line) > 0 /\ line[1] = "Error:"

ErrorLogged(i) == \E n \in 1..Len(stdout[i]) : IsErrorLine(i, stdout[i][n])

RemediatingApis == {"create_snapshot", "modify_db_instance", "modify_load_balancer_attributes"}

NoOp(i) == ~ErrorLogged(i) /\ CallIndexes(i, MutatingApis) = {}
SuccessfulMutation(i) ==
  /\ ~ErrorLogged(i)
  /\ Len(calls[i]) > 0
  /\ calls[i][Len(calls[i])].api \in RemediatingApis
  /\ Succeeded(calls[i][Len(calls[i])])
  /\ \A k \in 1..Len(calls[i]) : Succeeded(calls[i][k]) \/ Tolerated(calls[i][k])
Aborted(i) ==
  /\ ErrorLogged(i)
  /\ \/ \E k \in 1..Len(calls[i]) : ~Succeeded(calls[i][k]) /\ ~Tolerated(calls[i][k])
     \/ ReadFailed(calls[i][Len(calls[i])])

\* the alert's resource id has the path segments the runbook indexes
WellFormed(i) ==
  /\ runbook[i] = ELB_013 => Len(split(alert[i].resource_id, "/")) > 1
  /\ runbook[i] = ELB_015 => Len(split(alert[i].resource_id, "/")) > 2

\* C9: all four runbooks. Whatever ClientErrors its calls raise, the invocation returns
\* to its caller and raises nothing, every error is printed, and it ends in exactly one
\* of: no-op (no mutating call), successful mutation, aborted with the error printed.
C9_ReturnsInOneTerminalState ==
  \A i \in Invocations :
      /\ pc[i] = "raised" => ~WellFormed(i)
      /\ Returned(i) =>
           /\ Cardinality({ x \in {"noop", "success", "aborted"} :
                              \/ x = "noop" /\ NoOp(i)
                              \/ x = "success" /\ SuccessfulMutation(i)
                              \/ x = "aborted" /\ Aborted(i) }) = 1
           /\ (\E k \in 1..Len(calls[i]) : ~Succeeded(calls[i][k]) /\ ~Tolerated(calls[i][k]))
                => Aborted(i)

\* every runbook has returned after a ClientError
C9_Witness ==
  /\ \A i \in Invocations : Returned(i) /\ Aborted(i)
  /\ runbook["inv1"] = EC2_001 /\ calls["inv1"][Len(calls["inv1"])].api = "create_snapshot"
  /\ runbook["inv2"] = ELB_015
  /\ calls["inv2"][Len(calls["inv2"])].api = "modify_load_balancer_attributes"

\* ---- C10
\* C10: AWS-ELB-015 remediate. For a load balancer found by the name in the third path
\* segment of the resource id, whose access_logs.s3.enabled is not 'true', and no
\* ClientError: the calls after the two describes are create_bucket of
\* elbv2logs-<account>-<region>, <account> the account segment of the load balancer's
\* ARN, put_object of the key <name>/, put_bucket_policy of a policy of three statements
\* whose resources name this bucket and, where they name an account, this account, and
\* one modify_load_balancer_attributes setting access_logs.s3.enabled = 'true',
\* access_logs.s3.bucket = the bucket and access_logs.s3.prefix = <name>.
C10_V2HappyPath ==
  \A i \in Invocations :
    (runbook[i] = ELB_015 /\ Returned(i) /\ Len(calls[i]) > 1
       /\ \A k \in 1..Len(calls[i]) : Succeeded(calls[i][k])
       /\ calls[i][1].response # <<>>
       /\ "LoadBalancerArn" \in DOMAIN calls[i][1].response[1]
       /\ ~AlreadyEnabled(i)) =>
      LET name == split(alert[i].resource_id, "/")[3]
          lb == calls[i][1].response[1].LoadBalancerArn
          account == split(lb, ":")[5]
          bucket == <<"elbv2logs-">> \o account \o <<"-">> \o alert[i].region
          resources == ValuesOf(calls[i][5].args.Policy, "Resource")
          path(k) == split(split(resources[k], ":")[6], "/")
      IN  /\ calls[i][1].args.Names = <<name>>
          /\ [k \in 1..Len(calls[i]) |-> calls[i][k].api] =
               <<"describe_load_balancers", "describe_load_balancer_attributes",
                 "create_bucket", "put_object", "put_bucket_policy",
                 "modify_load_balancer_attributes">>
          /\ calls[i][3].args.Bucket = bucket
          /\ calls[i][4].args = [Bucket |-> bucket, Key |-> name \o <<"/">>]
          /\ calls[i][5].args.Bucket = bucket
          /\ Len(resources) = 3
          /\ \A k \in 1..3 : path(k)[1] = bucket
          /\ \A k \in 1..2 : path(k) = <<bucket, Str("*"), Str("AWSLogs"), account, Str("*")>>
          /\ path(3) = <<bucket>>
          /\ calls[i][6].args =
               [LoadBalancerArn |-> lb,
                Attributes |-> << [Key |-> Str("access_logs.s3.enabled"), Value |-> Str("true")],
                                  [Key |-> Str("access_logs.s3.bucket"), Value |-> bucket],
                                  [Key |-> Str("access_logs.s3.prefix"), Value |-> name] >>]

C10_Witness ==
  \E i \in Invocations :
    /\ runbook[i] = ELB_015 /\ Returned(i) /\ Len(calls[i]) = 6
    /\ \A k \in 1..6 : Succeeded(calls[i][k])
    /\ alert[i].region = Str("us-west-2")
    /\ [Bucket |-> <<"elbv2logs-", "111122223333", "-", "us-west-2">>, Key |-> <<"myelb", "/">>]
         \in objects
    /\ \E x \in elbv2Attrs : x.Attributes[3].Value = Str("myelb")

====
